---- MODULE Spec2Model ----
(***************************************************************************)
(* Model of the exchange rate calculator (src/src/lib.rs, src/src/main.rs). *)
(*                                                                         *)
(* One process run is: check_rates_file, download_rates_file when the      *)
(* check said "not fresh", load_rates_file_from_disk, parse_arguments and  *)
(* the conversion at the end of run().  The snapshot file in the temporary *)
(* directory and the system clock outlive a run; everything else is local  *)
(* to it.                                                                  *)
(*                                                                         *)
(* Strings are sequences of one-character strings.  f64 values are exact   *)
(* fractions <<numerator, denominator>> in lowest terms.                   *)
(***************************************************************************)
EXTENDS Integers, Sequences, FiniteSets, TLC

VARIABLES
    now,        \* system clock, seconds relative to the UNIX epoch (may be < 0)
    file,       \* the snapshot file /tmp/currency.json
    run_no,     \* number of the current run of the program
    argv,       \* env::args().skip(1) of the current run
    pc,         \* position inside run()
    fresh,      \* what check_rates_file returned in this run ("none" before)
    dl,         \* what download_rates_file returned in this run ("none" before)
    rates,      \* run()'s local HashMap, a set of <<key, value>> pairs
    exchange,   \* run()'s local ExchangeProcess
    func,       \* what parse_arguments produced in this run, with the message
                \* run() printed after it
    ending,     \* how run() ended: "running", "returned", "exited", "panicked"
    err_code,   \* run()'s return value or the argument of process::exit
    status,     \* exit status of the process as main() hands it to the system
    trace       \* the steps run() has performed in this run, in order

vars == <<now, file, run_no, argv, pc, fresh, dl, rates, exchange, func,
          ending, err_code, status, trace>>

(***************************************************************************)
(* Bounds of the model.                                                    *)
(***************************************************************************)
MaxRuns == 2        \* runs of the program in one behaviour
MaxArgs == 2        \* length of the freely combined token lists
MaxPieces == 3      \* number of tokens an expression is split into

(***************************************************************************)
(* Characters.                                                             *)
(***************************************************************************)
DigitChars == <<"0", "1", "2", "3", "4", "5", "6", "7", "8", "9">>
LowerChars == <<"a", "b", "c", "d", "e", "f", "g", "h", "i", "j", "k", "l", "m",
                "n", "o", "p", "q", "r", "s", "t", "u", "v", "w", "x", "y", "z">>
UpperChars == <<"A", "B", "C", "D", "E", "F", "G", "H", "I", "J", "K", "L", "M",
                "N", "O", "P", "Q", "R", "S", "T", "U", "V", "W", "X", "Y", "Z">>

Range(s) == {s[i] : i \in 1..Len(s)}

IsNumChar(c) == c \in Range(DigitChars) \cup {"."}
IsCodeChar(c) == c \in Range(UpperChars) \cup Range(LowerChars) \cup {"_"}

\* faulty variant: the letter is appended as typed
to_uppercase_verbatim(c) == c

\* c.to_string().to_uppercase() for the characters of the code arm
to_uppercase(c) ==
    IF c \in Range(LowerChars)
    THEN UpperChars[CHOOSE i \in 1..Len(LowerChars) : LowerChars[i] = c]
    ELSE c

(***************************************************************************)
(* f64 values as fractions in lowest terms.                                *)
(***************************************************************************)
RECURSIVE Gcd(_, _)
Gcd(a, b) == IF b = 0 THEN a ELSE Gcd(b, a % b)

Frac(n, d) == LET g == Gcd(n, d) IN <<n \div g, d \div g>>
FMul(x, y) == Frac(x[1] * y[1], x[2] * y[2])
FDiv(x, y) == Frac(x[1] * y[2], x[2] * y[1])

RECURSIVE Pow10(_)
Pow10(k) == IF k = 0 THEN 1 ELSE 10 * Pow10(k - 1)

DigitVal(c) == (CHOOSE i \in 1..Len(DigitChars) : DigitChars[i] = c) - 1

RECURSIVE DigitsValue(_)
DigitsValue(s) ==
    IF s = <<>> THEN 0
    ELSE 10 * DigitsValue(SubSeq(s, 1, Len(s) - 1)) + DigitVal(s[Len(s)])

IsDigit(c) == c \in Range(DigitChars)
IsDot(c) == c = "."

\* num.parse::<f64>() on a string of digits and dots: Ok for digits with at
\* most one dot and at least one digit, Err otherwise
parse_f64(num) ==
    LET digits == SelectSeq(num, IsDigit)
        dots == SelectSeq(num, IsDot)
        dotAt == CHOOSE i \in 1..Len(num) : num[i] = "."
        scale == IF dots = <<>> THEN 0 ELSE Len(num) - dotAt
    IN  IF Len(dots) > 1 \/ digits = <<>>
        THEN [ok |-> FALSE, val |-> <<0, 1>>]
        ELSE [ok |-> TRUE, val |-> Frac(DigitsValue(digits), Pow10(scale))]

\* .unwrap_or(1.0)
unwrap_or_one(r) == IF r.ok THEN r.val ELSE <<1, 1>>

(***************************************************************************)
(* parse_arguments, stage 1: the loop over the command-line tokens.        *)
(***************************************************************************)
HelpFlags == {<<"-", "h">>, <<"-", "-", "h", "e", "l", "p">>}
VersionFlags == {<<"-", "V">>, <<"-", "-", "v", "e", "r", "s", "i", "o", "n">>}

\* faulty variant: "-l" and "--list" are no longer among the list flags
UsualListFlagsLongOnly ==
    {<<"-", "l", "u">>, <<"-", "-", "l", "i", "s", "t", "-", "u", "s", "u", "a", "l">>}

UsualListFlags ==
    {<<"-", "l", "u">>, <<"-", "-", "l", "i", "s", "t", "-", "u", "s", "u", "a", "l">>,
     <<"-", "l">>, <<"-", "-", "l", "i", "s", "t">>}
CompleteListFlags ==
    {<<"-", "l", "a">>, <<"-", "-", "l", "i", "s", "t", "-", "a", "l", "l">>}
EqualityTokens == {<<"-", ">">>, <<"=", ">">>, <<"=">>, <<">">>}

starts_with_dash(param) == Len(param) > 0 /\ param[1] = "-"

\* What parse_arguments hands back: the ArgumentResult (or "Exit" when it
\* ends the process itself), the message it printed, the text the message
\* carries, and the ExchangeProcess as it leaves it.
Outcome(result, msg, detail, ex) ==
    [result |-> result, msg |-> msg, detail |-> detail, exchange |-> ex]

\* The while-let loop, from token i on, with the buffer built so far.
\* ret = "none" means the loop ran to the end of the tokens.
RECURSIVE TokenLoop(_, _, _)
TokenLoop(params, i, expr) ==
    IF i > Len(params)
    THEN [ret |-> "none", msg |-> "none", detail |-> <<>>, expr |-> expr]
    ELSE LET param == params[i] IN
         CASE param \in HelpFlags ->
                [ret |-> "Exit", msg |-> "help", detail |-> <<>>, expr |-> expr]
           [] param \in VersionFlags ->
                [ret |-> "Exit", msg |-> "version", detail |-> <<>>, expr |-> expr]
           [] param \in UsualListFlags ->
                [ret |-> "ShowUsualList", msg |-> "none", detail |-> <<>>, expr |-> expr]
           [] param \in CompleteListFlags ->
                [ret |-> "ShowCompleteList", msg |-> "none", detail |-> <<>>, expr |-> expr]
           [] param \in EqualityTokens ->
                TokenLoop(params, i + 1, expr \o <<"=">>)
           [] OTHER ->
                IF starts_with_dash(param)
                THEN [ret |-> "ArgumentError", msg |-> "UnknownArgument",
                      detail |-> param, expr |-> expr]
                ELSE TokenLoop(params, i + 1, expr \o param)

(***************************************************************************)
(* parse_arguments, stage 2: the loop over the characters of expr.         *)
(***************************************************************************)
ScanInit(ex) ==
    [fr_set |-> FALSE, num |-> <<>>, err_expr |-> <<>>, from |-> ex.from, to |-> ex.to]

\* faulty variant: only the first invalid character is kept
ScanCharFirstErrorOnly(st, c) ==
    CASE IsNumChar(c) -> [st EXCEPT !.num = @ \o <<c>>]
      [] c = "," -> [st EXCEPT !.num = @ \o <<".">>]
      [] c = "=" -> [st EXCEPT !.fr_set = TRUE]
      [] IsCodeChar(c) ->
            IF ~st.fr_set
            THEN [st EXCEPT !.from = @ \o <<to_uppercase(c)>>]
            ELSE [st EXCEPT !.to = @ \o <<to_uppercase(c)>>]
      [] OTHER -> IF st.err_expr = <<>> THEN [st EXCEPT !.err_expr = <<c>>] ELSE st

\* one iteration of `for c in expr.chars()`
ScanChar(st, c) ==
    CASE IsNumChar(c) -> [st EXCEPT !.num = @ \o <<c>>]
      [] c = "," -> [st EXCEPT !.num = @ \o <<".">>]
      [] c = "=" -> [st EXCEPT !.fr_set = TRUE]
      [] IsCodeChar(c) ->
            IF ~st.fr_set
            THEN [st EXCEPT !.from = @ \o <<to_uppercase(c)>>]
            ELSE [st EXCEPT !.to = @ \o <<to_uppercase(c)>>]
      [] OTHER -> [st EXCEPT !.err_expr = @ \o <<c>>]

RECURSIVE ScanExpr(_, _, _)
ScanExpr(expr, i, st) ==
    IF i > Len(expr) THEN st ELSE ScanExpr(expr, i + 1, ScanChar(st, expr[i]))

(***************************************************************************)
(* parse_arguments(exchange) on the tokens params.                         *)
(***************************************************************************)
parse_arguments(params, ex) ==
    IF Len(params) = 0
    THEN Outcome("ArgumentError", "NoArguments", <<>>, ex)
    ELSE LET t == TokenLoop(params, 1, <<>>) IN
         IF t.ret # "none"
         THEN Outcome(t.ret, t.msg, t.detail, ex)
         ELSE LET st == ScanExpr(t.expr, 1, ScanInit(ex))
                  scanned == [ex EXCEPT !.from = st.from, !.to = st.to]
              IN  IF Len(st.err_expr) > 0
                  THEN Outcome("ArgumentError", "UnknownExpression", st.err_expr, scanned)
                  ELSE Outcome("Success", "none", <<>>,
                               [scanned EXCEPT
                                   !.amount_from = unwrap_or_one(parse_f64(st.num))])

\* ExchangeProcess::new()
ExchangeProcess_new ==
    [from |-> <<>>, to |-> <<>>, rate |-> <<0, 1>>,
     amount_from |-> <<0, 1>>, amount_to |-> <<0, 1>>]

(***************************************************************************)
(* The snapshot file and the payloads the remote source can serve.         *)
(***************************************************************************)
FreshnessThreshold == 3600

Entry(key, num, val) == [key |-> key, num |-> num, val |-> val]

\* Content of the snapshot: kind is what serde_json makes of it ("empty" is a
\* file of length zero), table the entries under "rates" in iteration order
\* (num says whether the value is a JSON number).  Values are in tenths.
Content(kind, table) == [kind |-> kind, table |-> table]

EmptyContent == Content("empty", <<>>)
TruncatedContent == Content("invalid", <<>>)

TableEurUsd == <<Entry(<<"E", "U", "R">>, TRUE, 10), Entry(<<"U", "S", "D">>, TRUE, 11)>>
TableUsdOnly == <<Entry(<<"U", "S", "D">>, TRUE, 11)>>
TableBadValue == <<Entry(<<"E", "U", "R">>, TRUE, 10), Entry(<<"U", "S", "D">>, FALSE, 0)>>

Payloads ==
    {Content("object", TableEurUsd), Content("object", TableUsdOnly),
     Content("object", TableBadValue), Content("norates", <<>>),
     Content("ratesnotobject", <<>>), Content("notobject", <<>>),
     Content("invalid", <<>>), EmptyContent}

NoFile ==
    [exists |-> FALSE, access |-> "ok", mtime |-> 0, content |-> EmptyContent,
     complete |-> FALSE]

\* access: "ok", or the call that fails on this file: "noopen" (File::open),
\* "nometa" (file.metadata), "nomodified" (metadata.modified).
\* complete: the content is the whole payload of a transfer that succeeded.
SnapshotFile(access, mtime, content, complete) ==
    [exists |-> TRUE, access |-> access, mtime |-> mtime, content |-> content,
     complete |-> complete]

(***************************************************************************)
(* check_rates_file                                                        *)
(***************************************************************************)
\* t.duration_since(UNIX_EPOCH) is Err for a time before the epoch, and the
\* variable keeps its initial 0
file_date(f) == IF f.access # "nomodified" /\ f.mtime >= 0 THEN f.mtime ELSE 0
cur_date(clock) == IF clock >= 0 THEN clock ELSE 0

\* cur_date - file_date >= 3_600 for cur_date >= file_date
is_stale(cur, fd) == cur - fd >= FreshnessThreshold

\* The outcomes of check_rates_file.  cur_date < file_date makes the u64
\* subtraction overflow: a build with overflow checks panics, a build without
\* wraps to 2^64 - (file_date - cur_date), which is >= 3600 for every
\* difference the model can hold.
check_rates_file(f, clock) ==
    IF ~f.exists THEN {"false"}
    ELSE IF f.access = "noopen" THEN {"false"}
    ELSE IF f.access = "nometa" THEN {"false"}
    ELSE IF cur_date(clock) < file_date(f) THEN {"panic", "false"}
    ELSE IF is_stale(cur_date(clock), file_date(f)) THEN {"false"}
    ELSE {"true"}

(***************************************************************************)
(* download_rates_file                                                     *)
(***************************************************************************)
\* File::create: the file exists afterwards, is empty and carries the
\* current time
created(f, clock) ==
    SnapshotFile(IF f.exists THEN f.access ELSE "ok", clock, EmptyContent, FALSE)

\* what is on disk when the transfer stops early: nothing or a part
partial(f, clock) ==
    {created(f, clock), [created(f, clock) EXCEPT !.content = TruncatedContent]}

\* The outcomes of download_rates_file: the value returned ("panic" when
\* write_all(..).unwrap() panics in the write callback) and the file left.
download_rates_file(f, clock) ==
    {[ret |-> "false", file |-> f]}
    \cup {[ret |-> "false", file |-> g] : g \in partial(f, clock)}
    \cup {[ret |-> "panic", file |-> g] : g \in partial(f, clock)}
    \cup {[ret |-> "true", file |-> [created(f, clock) EXCEPT !.content = p,
                                                               !.complete = TRUE]]
          : p \in Payloads}

(***************************************************************************)
(* load_rates_file_from_disk                                               *)
(***************************************************************************)
\* HashMap::insert
insert(map, key, val) == {e \in map : e[1] # key} \cup {<<key, val>>}
contains_key(map, key) == \E e \in map : e[1] = key
lookup(map, key) == (CHOOSE e \in map : e[1] = key)[2]

\* the loop over rates.iter(), from entry i on
RECURSIVE InsertLoop(_, _, _)
InsertLoop(table, i, map) ==
    IF i > Len(table) THEN [ret |-> "true", rates |-> map]
    ELSE IF ~table[i].num THEN [ret |-> "panic", rates |-> map]
    ELSE InsertLoop(table, i + 1, insert(map, table[i].key, <<table[i].val, 1>>))

load_rates_file_from_disk(f, map) ==
    IF ~f.exists \/ f.access = "noopen" THEN [ret |-> "false", rates |-> map]
    ELSE IF f.content.kind = "empty" THEN [ret |-> "false", rates |-> map]
    ELSE IF f.content.kind # "object" THEN [ret |-> "panic", rates |-> map]
    ELSE InsertLoop(f.content.table, 1, map)

(***************************************************************************)
(* run(): what follows each call, and the conversion at its end.           *)
(***************************************************************************)
Goto(p) == [pc |-> p, code |-> -1]
Ret(c) == [pc |-> "done", code |-> c]

\* if !check_rates_file() { download_rates_file() ... }
after_check(r) == IF r = "true" THEN Goto("load") ELSE Goto("download")

\* faulty variant: a failed download is reported and the run goes on
after_download_goes_on(r) == Goto("load")

\* if !download_rates_file() { return 1 }
after_download(r) == IF r = "true" THEN Goto("load") ELSE Ret(1)

\* faulty variant: a failed load is reported and the run goes on
after_load_goes_on(r) == Goto("parse")

\* if !load_rates_file_from_disk(&mut rates) { return 2 }
after_load(r) == IF r = "true" THEN Goto("parse") ELSE Ret(2)

\* match func { ... }
after_parse(result) ==
    CASE result = "ArgumentError" -> Ret(3)
      [] result = "ShowUsualList" -> Ret(0)
      [] result = "ShowCompleteList" -> Ret(0)
      [] OTHER -> Goto("convert")

\* faulty variant: the two lookups are made in the other order
convert_to_first(map, ex) ==
    IF ~contains_key(map, ex.to) THEN [code |-> 5, missing |-> ex.to, exchange |-> ex]
    ELSE IF ~contains_key(map, ex.from)
    THEN [code |-> 4, missing |-> ex.from, exchange |-> ex]
    ELSE LET rate == FDiv(lookup(map, ex.to), lookup(map, ex.from)) IN
         [code |-> 0, missing |-> <<>>,
          exchange |-> [ex EXCEPT !.rate = rate, !.amount_to = FMul(ex.amount_from, rate)]]

\* the end of run(): the two contains_key tests and the computation;
\* missing is the code the message names
convert(map, ex) ==
    IF ~contains_key(map, ex.from)
    THEN [code |-> 4, missing |-> ex.from, exchange |-> ex]
    ELSE IF ~contains_key(map, ex.to)
    THEN [code |-> 5, missing |-> ex.to, exchange |-> ex]
    ELSE LET rate == FDiv(lookup(map, ex.to), lookup(map, ex.from)) IN
         [code |-> 0, missing |-> <<>>,
          exchange |-> [ex EXCEPT !.rate = rate, !.amount_to = FMul(ex.amount_from, rate)]]

\* main(): Err(err_code) for a code other than 0, which the runtime turns
\* into exit status 1
main(code) == IF code # 0 THEN 1 ELSE 0

Continue(p) == pc' = p /\ UNCHANGED <<ending, err_code, status>>
Return(c) ==
    pc' = "done" /\ ending' = "returned" /\ err_code' = c /\ status' = main(c)
Exit(c) == pc' = "done" /\ ending' = "exited" /\ err_code' = c /\ status' = c
Panic == pc' = "done" /\ ending' = "panicked" /\ err_code' = -1 /\ status' = 101
Follow(n) == IF n.pc = "done" THEN Return(n.code) ELSE Continue(n.pc)

(***************************************************************************)
(* The steps of a run.                                                     *)
(***************************************************************************)
Check ==
    /\ pc = "check"
    /\ \E r \in check_rates_file(file, now) :
          /\ fresh' = r
          /\ IF r = "panic" THEN Panic ELSE Follow(after_check(r))
    /\ trace' = Append(trace, "check")
    /\ UNCHANGED <<now, file, run_no, argv, dl, rates, exchange, func>>

Download ==
    /\ pc = "download"
    /\ \E d \in download_rates_file(file, now) :
          /\ dl' = d.ret
          /\ file' = d.file
          /\ IF d.ret = "panic" THEN Panic ELSE Follow(after_download(d.ret))
    /\ trace' = Append(trace, "download")
    /\ UNCHANGED <<now, run_no, argv, fresh, rates, exchange, func>>

Load ==
    /\ pc = "load"
    /\ LET l == load_rates_file_from_disk(file, rates) IN
          /\ rates' = l.rates
          /\ IF l.ret = "panic" THEN Panic ELSE Follow(after_load(l.ret))
    /\ trace' = Append(trace, "load")
    /\ UNCHANGED <<now, file, run_no, argv, fresh, dl, exchange, func>>

Parse ==
    /\ pc = "parse"
    /\ LET f == parse_arguments(argv, exchange) IN
          /\ func' = f
          /\ exchange' = f.exchange
          /\ IF f.result = "Exit" THEN Exit(0) ELSE Follow(after_parse(f.result))
    /\ trace' = Append(trace, "parse")
    /\ UNCHANGED <<now, file, run_no, argv, fresh, dl, rates>>

Convert ==
    /\ pc = "convert"
    /\ LET c == convert(rates, exchange) IN
          /\ exchange' = c.exchange
          /\ func' = [func EXCEPT !.msg = IF c.code = 0 THEN "result" ELSE "CurrencyNotFound",
                                  !.detail = c.missing]
          /\ Return(c.code)
    /\ trace' = Append(trace, "convert")
    /\ UNCHANGED <<now, file, run_no, argv, fresh, dl, rates>>

(***************************************************************************)
(* The command lines of the runs.                                          *)
(***************************************************************************)
RunArgv ==
    {<<>>, <<<<"-", "h">>>>, <<<<"-", "l">>>>, <<<<"-", "x">>>>, <<<<"$">>>>,
     <<<<"1", ",", "5", "u", "s", "d", "=", "E", "U", "R">>>>, <<<<"g", "b", "p">>, <<"=">>, <<"u", "s", "d">>>>, <<<<"u", "s", "d">>, <<"-", ">">>, <<"g", "b", "p">>>>, <<<<"=">>>>}

NoOutcome == Outcome("none", "none", <<>>, ExchangeProcess_new)

\* the clock between two runs
Ticks == {1, FreshnessThreshold - 1, FreshnessThreshold}

\* the program is started again
NewRun ==
    /\ pc = "done"
    /\ run_no < MaxRuns
    /\ run_no' = run_no + 1
    /\ \E d \in Ticks : now' = now + d
    /\ argv' \in RunArgv
    /\ pc' = "check"
    /\ fresh' = "none"
    /\ dl' = "none"
    /\ rates' = {}
    /\ exchange' = ExchangeProcess_new
    /\ func' = NoOutcome
    /\ ending' = "running"
    /\ err_code' = -1
    /\ status' = -1
    /\ trace' = <<>>
    /\ UNCHANGED file

\* the clock at the first run: an ordinary time, a time within the first hour
\* after the epoch, a time before the epoch
InitClocks == <<10000, 100, -50>>
InitAges == {-50, FreshnessThreshold - 1, FreshnessThreshold, FreshnessThreshold + 1}
FileAccess == {"ok", "noopen", "nometa", "nomodified"}

\* a snapshot an earlier run left (or none), and the start of a run
Init ==
    /\ \E i \in 1..Len(InitClocks) : now = InitClocks[i]
    /\ file \in {NoFile}
            \cup {SnapshotFile(a, now - age, p, TRUE) :
                    a \in FileAccess, age \in InitAges, p \in Payloads}
    /\ run_no = 1
    /\ argv \in RunArgv
    /\ pc = "check"
    /\ fresh = "none"
    /\ dl = "none"
    /\ rates = {}
    /\ exchange = ExchangeProcess_new
    /\ func = NoOutcome
    /\ ending = "running"
    /\ err_code = -1
    /\ status = -1
    /\ trace = <<>>

Next == Check \/ Download \/ Load \/ Parse \/ Convert \/ NewRun

Spec == Init /\ [][Next]_vars

(***************************************************************************)
(* The parser on a wide set of command lines: the program at the call of   *)
(* parse_arguments, after a fresh snapshot has been loaded.                 *)
(***************************************************************************)
EqualitySpellings == {<<"-", ">">>, <<"=", ">">>, <<"=">>, <<">">>}

\* the flags of the help text
RecognizedFlags ==
    {<<"-", "h">>, <<"-", "-", "h", "e", "l", "p">>, <<"-", "V">>, <<"-", "-", "v", "e", "r", "s", "i", "o", "n">>, <<"-", "l">>, <<"-", "-", "l", "i", "s", "t">>, <<"-", "l", "u">>, <<"-", "-", "l", "i", "s", "t", "-", "u", "s", "u", "a", "l">>,
     <<"-", "l", "a">>, <<"-", "-", "l", "i", "s", "t", "-", "a", "l", "l">>}

\* the tokens that are combined freely
FreeTokens ==
    RecognizedFlags \cup EqualitySpellings
    \cup {<<"-", "x">>, <<"-", "-", "l", "a">>, <<"1", ",", "5", "u", "s", "d">>, <<"E", "U", "R">>, <<"u", "s", "d", "=", "E", "U", "R">>, <<"$">>, <<"1", "$", "5">>, <<"a", ">", "b">>, <<"%", "e", "u", "r">>}

RECURSIVE SeqsUpTo(_, _)
SeqsUpTo(S, n) ==
    IF n = 0 THEN {<<>>}
    ELSE LET shorter == SeqsUpTo(S, n - 1) IN
         shorter \cup {Append(q, t) : q \in {r \in shorter : Len(r) = n - 1}, t \in S}

\* amounts with their values, and codes with their upper-case spellings
Amounts ==
    {[str |-> <<"1", ",", "5">>, val |-> <<3, 2>>], [str |-> <<"1", ".", "5", "0">>, val |-> <<3, 2>>],
     [str |-> <<",", "2", "5">>, val |-> <<1, 4>>], [str |-> <<"3", ".">>, val |-> <<3, 1>>]}
Codes ==
    {[str |-> <<"u", "s", "d">>, upper |-> <<"U", "S", "D">>], [str |-> <<"E", "U", "R">>, upper |-> <<"E", "U", "R">>],
     [str |-> <<"G", "b", "p">>, upper |-> <<"G", "B", "P">>]}

\* all ways to cut s into at most k non-empty tokens
RECURSIVE Splits(_, _)
Splits(s, k) ==
    IF k <= 1 \/ Len(s) <= 1 THEN {<<s>>}
    ELSE {<<s>>}
         \cup UNION {{<<SubSeq(s, 1, i)>> \o rest :
                        rest \in Splits(SubSeq(s, i + 1, Len(s)), k - 1)} :
                     i \in 1..(Len(s) - 1)}

Expressions ==
    {n.str \o a.str \o m \o b.str :
        n \in Amounts, a \in Codes, m \in EqualitySpellings, b \in Codes}

ParseArgv ==
    SeqsUpTo(FreeTokens, MaxArgs) \cup UNION {Splits(e, MaxPieces) : e \in Expressions}

LoadedTables == {TableEurUsd, TableUsdOnly, <<>>}

InitParse ==
    /\ now = 10000
    /\ \E t \in LoadedTables :
          /\ file = SnapshotFile("ok", now - 1, Content("object", t), TRUE)
          /\ rates = load_rates_file_from_disk(file, {}).rates
    /\ run_no = 1
    /\ argv \in ParseArgv
    /\ pc = "parse"
    /\ fresh = "true"
    /\ dl = "none"
    /\ exchange = ExchangeProcess_new
    /\ func = NoOutcome
    /\ ending = "running"
    /\ err_code = -1
    /\ status = -1
    /\ trace = <<"check", "load">>

NextParse == Parse \/ Convert

SpecParse == InitParse /\ [][NextParse]_vars

(***************************************************************************)
(* Properties of parse_arguments and of the conversion (SpecParse).        *)
(***************************************************************************)
JustParsed == trace # <<>> /\ trace[Len(trace)] = "parse"
JustConverted == trace # <<>> /\ trace[Len(trace)] = "convert"

RECURSIVE Flatten(_)
Flatten(tokens) ==
    IF tokens = <<>> THEN <<>> ELSE Head(tokens) \o Flatten(Tail(tokens))

MarkerChars == {"-", "=", ">"}

\* token with the characters from..upto replaced by s
Replaced(token, from, upto, s) ==
    SubSeq(token, 1, from - 1) \o s \o SubSeq(token, upto + 1, Len(token))

\* the places of the command line where the spelling s1 stands as a marker:
\* token i, characters j..j+Len(s1)-1, no marker character next to it
MarkerPlaces(tokens, s1) ==
    {<<i, j>> \in (1..Len(tokens)) \X (1..12) :
        /\ j + Len(s1) - 1 <= Len(tokens[i])
        /\ SubSeq(tokens[i], j, j + Len(s1) - 1) = s1
        /\ (j > 1 => tokens[i][j - 1] \notin MarkerChars)
        /\ (j + Len(s1) <= Len(tokens[i]) => tokens[i][j + Len(s1)] \notin MarkerChars)}

SameRequest(f, g) ==
    /\ f.result = g.result
    /\ f.result = "Success" =>
          /\ f.exchange.from = g.exchange.from
          /\ f.exchange.to = g.exchange.to
          /\ f.exchange.amount_from = g.exchange.amount_from

\* C4: whenever a command line has been parsed, replacing in it one equality
\* marker (a token of its own or a part of a token) by any other of the four
\* spellings gives a command line that parses to the same outcome and, on
\* success, to the same from, to and amount.
C4_SpellingsInterchangeable ==
    JustParsed =>
        \A s1 \in EqualitySpellings, s2 \in EqualitySpellings :
            \A pl \in MarkerPlaces(argv, s1) :
                SameRequest(func,
                    parse_arguments(
                        [argv EXCEPT ![pl[1]] =
                            Replaced(@, pl[2], pl[2] + Len(s1) - 1, s2)],
                        ExchangeProcess_new))

SpecAllowedChars ==
    Range(DigitChars) \cup Range(UpperChars) \cup Range(LowerChars)
    \cup {".", ",", "=", "_", ">", "-"}
OutsideSpecAllowed(c) == c \notin SpecAllowedChars

ScanAllowedChars ==
    Range(DigitChars) \cup Range(UpperChars) \cup Range(LowerChars)
    \cup {".", ",", "=", "_"}
OutsideScanAllowed(c) == c \notin ScanAllowedChars

\* the command line with each marker token replaced by "="
RECURSIVE Normalized(_)
Normalized(tokens) ==
    IF tokens = <<>> THEN <<>>
    ELSE (IF Head(tokens) \in EqualitySpellings THEN <<"=">> ELSE Head(tokens))
         \o Normalized(Tail(tokens))

NoDashToken(tokens) ==
    \A i \in 1..Len(tokens) :
        tokens[i] \in EqualitySpellings \/ tokens[i] = <<>> \/ tokens[i][1] # "-"

FlagResult(token) ==
    CASE token \in {<<"-", "h">>, <<"-", "-", "h", "e", "l", "p">>} -> <<"Exit", "help">>
      [] token \in {<<"-", "V">>, <<"-", "-", "v", "e", "r", "s", "i", "o", "n">>} -> <<"Exit", "version">>
      [] token \in {<<"-", "l">>, <<"-", "-", "l", "i", "s", "t">>, <<"-", "l", "u">>, <<"-", "-", "l", "i", "s", "t", "-", "u", "s", "u", "a", "l">>} -> <<"ShowUsualList", "none">>
      [] token \in {<<"-", "l", "a">>, <<"-", "-", "l", "i", "s", "t", "-", "a", "l", "l">>} -> <<"ShowCompleteList", "none">>

\* the first recognized flag of the command line is token k, and every token
\* before it is a marker or begins with something else than "-"
FirstFlagAt(tokens, k) ==
    /\ k \in 1..Len(tokens)
    /\ tokens[k] \in RecognizedFlags
    /\ \A i \in 1..(k - 1) : tokens[i] \notin RecognizedFlags
    /\ NoDashToken(SubSeq(tokens, 1, k - 1))

\* C6: when the first recognized flag of the command line comes after
\* expression fragments only, parse_arguments ends with that flag's outcome,
\* whatever follows the flag, and leaves from, to and the amounts of the
\* request as ExchangeProcess::new() made them.
C6_FlagShortCircuits ==
    JustParsed =>
        \A k \in 1..Len(argv) :
            FirstFlagAt(argv, k) =>
                /\ <<func.result, func.msg>> = FlagResult(argv[k])
                /\ func.detail = <<>>
                /\ func.exchange = ExchangeProcess_new
                /\ exchange = ExchangeProcess_new
                /\ pc = "done"
                /\ err_code = 0

\* a flag after an invalid fragment has been parsed
C6_Witness ==
    /\ JustParsed
    /\ argv = <<<<"1", "$", "5">>, <<"-", "l">>>>
    /\ func.result = "ShowUsualList"

\* C7: a command line whose tokens, put together, read n A = B, with n one of
\* the amounts and A, B among the codes, parses with Success to
\* from = upper(A), to = upper(B) and the value of n as amount.
C7_AmountAndCodes ==
    JustParsed =>
        \A n \in Amounts, a \in Codes, b \in Codes :
            Flatten(argv) = n.str \o a.str \o <<"=">> \o b.str =>
                /\ func.result = "Success"
                /\ exchange.from = a.upper
                /\ exchange.to = b.upper
                /\ exchange.amount_from = n.val
                /\ pc = "convert"

\* the expression has been parsed from three tokens, comma and lower case
C7_Witness ==
    /\ JustParsed
    /\ argv = <<<<"1", ",", "5">>, <<"u", "s", "d", "=">>, <<"E", "U", "R">>>>
    /\ exchange.from = <<"U", "S", "D">>
    /\ exchange.to = <<"E", "U", "R">>
    /\ exchange.amount_from = <<3, 2>>

\* the code is a key of the snapshot that was loaded
InSnapshot(code) ==
    \E i \in 1..Len(file.content.table) : file.content.table[i].key = code

NoResult(ex) == ex.rate = <<0, 1>> /\ ex.amount_to = <<0, 1>>

\* C9: every successful parse is followed by the conversion step, and that
\* step ends with code 4 naming from when from is no key of the table, with
\* code 5 naming to when from is a key and to is not, and with code 0 and a
\* rate and amount_to only when both are keys.
C9_FromCheckedFirst ==
    /\ (JustParsed /\ func.result = "Success") => pc = "convert"
    /\ JustConverted =>
          /\ ~InSnapshot(func.exchange.from) =>
                /\ err_code = 4
                /\ func.msg = "CurrencyNotFound"
                /\ func.detail = func.exchange.from
                /\ NoResult(exchange)
          /\ (InSnapshot(func.exchange.from) /\ ~InSnapshot(func.exchange.to)) =>
                /\ err_code = 5
                /\ func.msg = "CurrencyNotFound"
                /\ func.detail = func.exchange.to
                /\ NoResult(exchange)
          /\ (InSnapshot(func.exchange.from) /\ InSnapshot(func.exchange.to)) =>
                /\ err_code = 0
                /\ func.msg = "result"
                /\ exchange.rate =
                      FDiv(lookup(rates, exchange.to), lookup(rates, exchange.from))
                /\ exchange.amount_to = FMul(exchange.amount_from, exchange.rate)

\* the conversion has met a from that is no key while to is one
C9_Witness ==
    /\ JustConverted
    /\ ~InSnapshot(func.exchange.from)
    /\ InSnapshot(func.exchange.to)
    /\ err_code = 4

(***************************************************************************)
(* Properties of the runs (Spec).                                          *)
(***************************************************************************)
JustChecked == trace = <<"check">>
JustLoaded == trace # <<>> /\ trace[Len(trace)] = "load"
Did(step) == \E i \in 1..Len(trace) : trace[i] = step
Count(step) == Cardinality({i \in 1..Len(trace) : trace[i] = step})

\* the modification time of the snapshot can be read as seconds since the epoch
TimestampKnown(f) == f.exists /\ f.access = "ok" /\ f.mtime >= 0

\* C1: check_rates_file returns false when the snapshot does not exist, when
\* its modification time cannot be determined, or when now - lastModified is
\* 3600 or more, and true when the time is known and 0 <= now - lastModified
\* < 3600.
C1_FreshnessCheck ==
    JustChecked =>
        /\ ~file.exists => fresh = "false"
        /\ (file.exists /\ ~TimestampKnown(file)) => fresh = "false"
        /\ (TimestampKnown(file) /\ now - file.mtime >= 3600) => fresh = "false"
        /\ (TimestampKnown(file) /\ 0 <= now - file.mtime /\ now - file.mtime < 3600) =>
              fresh = "true"

\* C2: a run calls download_rates_file at most once and only right after a
\* check that returned false; when the call returns false, run() returns 1
\* at once, and load, parse and conversion do not happen (nor do they when
\* the call panics).
C2_RefreshOnceAndFatal ==
    /\ Count("download") <= 1
    /\ Did("download") =>
          /\ fresh = "false"
          /\ Len(trace) >= 2 /\ trace[1] = "check" /\ trace[2] = "download"
    /\ (fresh = "true" /\ pc # "check") => ~Did("download")
    /\ dl = "false" =>
          /\ pc = "done"
          /\ ending = "returned"
          /\ err_code = 1
          /\ trace = <<"check", "download">>
    /\ dl = "panic" =>
          /\ pc = "done"
          /\ ending = "panicked"
          /\ trace = <<"check", "download">>

\* a refresh has failed and the run is over
C2_Witness ==
    /\ dl = "false"
    /\ pc = "done"
    /\ err_code = 1
    /\ file.exists /\ ~file.complete

YieldsArgumentError(tokens) ==
    parse_arguments(tokens, ExchangeProcess_new).result = "ArgumentError"
IsInformational(tokens) ==
    parse_arguments(tokens, ExchangeProcess_new).result
        \in {"Exit", "ShowUsualList", "ShowCompleteList"}

\* C3 (as claimed): a run whose tokens yield an argument error ends with code
\* 3 without check, refresh or load, and a run whose tokens are an
\* informational flag ends with code 0.
C3_ParsedBeforeCache ==
    /\ YieldsArgumentError(argv) =>
          /\ ~Did("check") /\ ~Did("download") /\ ~Did("load")
          /\ pc = "done" => err_code = 3
    /\ (IsInformational(argv) /\ pc = "done") => err_code = 0

\* load_rates_file_from_disk can read a rate table from the snapshot
LoadableSnapshot(f) ==
    /\ f.exists
    /\ f.access # "noopen"
    /\ f.content.kind = "object"
    /\ \A i \in 1..Len(f.content.table) : f.content.table[i].num

\* C3 (amended): the cache comes before the tokens.  A run whose tokens yield
\* an argument error or are an informational flag reaches parse_arguments
\* only after the check, the refresh when the check returned false, and a
\* load that succeeded; it then ends with code 3 (argument error) or 0
\* (informational flag).  Otherwise it ends with code 1 or 2 or with a panic,
\* whatever the tokens are.
C3_CacheBeforeParse ==
    (pc = "done" /\ (YieldsArgumentError(argv) \/ IsInformational(argv))) =>
        /\ Did("parse") =>
              /\ trace \in {<<"check", "load", "parse">>,
                            <<"check", "download", "load", "parse">>}
              /\ Did("download") <=> fresh = "false"
              /\ LoadableSnapshot(file)
              /\ ending = (IF func.result = "Exit" THEN "exited" ELSE "returned")
              /\ err_code = (IF YieldsArgumentError(argv) THEN 3 ELSE 0)
        /\ ~Did("parse") =>
              /\ Did("check")
              /\ \/ ending = "returned" /\ err_code = 1 /\ dl = "false"
                 \/ ending = "returned" /\ err_code = 2 /\ ~LoadableSnapshot(file)
                 \/ ending = "panicked"

\* a run without tokens has ended with code 3 after a refresh and a load
C3_Witness ==
    /\ pc = "done"
    /\ argv = <<>>
    /\ err_code = 3
    /\ trace = <<"check", "download", "load", "parse">>

\* C8: a snapshot that cannot be loaded (not to be opened, empty, not an
\* object with an object under "rates", or with a rate that is no number)
\* makes run() return 2, without a panic and without a parse afterwards.
C8_LoadFailureIsCode2 ==
    (JustLoaded /\ ~LoadableSnapshot(file)) =>
        /\ pc = "done"
        /\ ending = "returned"
        /\ err_code = 2

\* C10: a refresh that fails leaves the snapshot as it was, so a snapshot the
\* check judges fresh is the whole payload of a transfer that succeeded.
C10_FreshSnapshotIsComplete ==
    (Did("check") /\ fresh = "true") => file.complete
====
